---- MODULE Spec2Model ----
(***************************************************************************)
(* PyDebtZero: the Wallet simulation engine (src/src/Wallet.py) and the    *)
(* Loan amortization math (src/src/Loan.py).                               *)
(*                                                                         *)
(* Money is modelled in whole units and every apr is a multiple of 1200,   *)
(* so the monthly rate apr/100/12 is a whole number and every product,     *)
(* quotient, sum and difference the code computes is exact, in the model   *)
(* and in the code's floating point alike (no rounding is modelled).       *)
(***************************************************************************)
EXTENDS Integers, Sequences, FiniteSets, TLC

VARIABLES
    loans,               \* Wallet.loans: loan id -> Loan terms (fixed after construction)
    budget_ceiling,      \* Wallet.budget_ceiling
    priority_items,      \* order in which loan_priority_dict.items() yields the ids
    amount_still_owed,   \* Loan.amount_still_owed per loan id (None before a run)
    payment_history,     \* Wallet.payment_history
    balance_history,     \* Wallet.balance_history
    interest_history,    \* Wallet.interest_history
    method_used_name,    \* Wallet.method_used_name
    months_in_history,   \* Wallet.months_in_history
    months_passed,       \* local counter of the running generate_*_plan
    calls,               \* the generate_*_plan calls made so far, in order
    pc,                  \* position of the running generate_*_plan
    calls_left           \* generate_*_plan calls the caller will still make

vars == <<loans, budget_ceiling, priority_items, amount_still_owed,
          payment_history, balance_history, interest_history,
          method_used_name, months_in_history, months_passed, calls, pc,
          calls_left>>

(***************************************************************************)
(* Bounds of the model.                                                    *)
(***************************************************************************)
MaxPrincipal == 2
MaxBudget == 4
MaxMonths == 5
MaxRuns == 2

(***************************************************************************)
(* Python's None and a present value.                                      *)
(***************************************************************************)
None == <<>>
Some(v) == <<v>>
Val(o) == o[1]

LoanIds == {"A", "B", "C"}

\* self.loans.iteritems(): the order in which the loans mapping yields its ids.
iteritems == <<"A", "B", "C">>

\* loan_priority_dict.items(): the new dict yields the ids in the order of
\* the loans mapping or, its slots filled in another order, in the reverse.
PriorityItemOrders ==
    {iteritems,
     [i \in 1..Len(iteritems) |-> iteritems[Len(iteritems) + 1 - i]]}

PercentScale == 100
MonthsPerYear == 12
DefaultMonthsToPay == 120

APRs == {0, 1200, 2400}
MinPaymentDefaults == {None, Some(1)}

RECURSIVE Pow(_, _)
Pow(b, n) == IF n = 0 THEN 1 ELSE b * Pow(b, n - 1)

RECURSIVE SumOver(_, _)
SumOver(f, S) ==
    IF S = {} THEN 0
    ELSE LET x == CHOOSE y \in S : TRUE IN f[x] + SumOver(f, S \ {x})

(***************************************************************************)
(* Loan                                                                    *)
(***************************************************************************)
yearly_interest_rate(loan) == loan.apr \div PercentScale

monthly_interest_rate(loan) == yearly_interest_rate(loan) \div MonthsPerYear

monthly_interest_amp(loan) == 1 + monthly_interest_rate(loan)

compute_minimum_required_payment(loan) ==
    IF monthly_interest_rate(loan) = 0
    THEN loan.principal_amount \div loan.months_to_desired_completion
    ELSE LET amp == Pow(1 + monthly_interest_rate(loan),
                        loan.months_to_desired_completion)
         IN (monthly_interest_rate(loan) * loan.principal_amount * amp)
               \div (amp - 1)

minimum_payment(loan) ==
    IF loan.minimum_payment_default # None
    THEN Val(loan.minimum_payment_default)
    ELSE compute_minimum_required_payment(loan)

\* The bug of not capping the minimum payment by the balance.
minimum_payment_simulation_uncapped(loan, owed) ==
    IF owed = None THEN 0 ELSE minimum_payment(loan)

minimum_payment_simulation(loan, owed) ==
    IF owed = None THEN 0
    ELSE IF Val(owed) < minimum_payment(loan) THEN Val(owed)
    ELSE minimum_payment(loan)

\* The bug of accruing the interest on the principal, not on the balance.
compute_single_cycle_earned_interest(loan, owed) ==
    loan.principal_amount * (monthly_interest_amp(loan) - 1)

compute_single_cycle_earned_interest_simulation(loan, owed) ==
    IF owed = None THEN 0
    ELSE Val(owed) * (monthly_interest_amp(loan) - 1)

\* The loan terms a wallet is built from: those on which the divisions of
\* the code are exact.
ExactTerms(t) ==
    /\ t.apr % (PercentScale * MonthsPerYear) = 0
    /\ IF t.minimum_payment_default # None
       THEN t.months_to_desired_completion = DefaultMonthsToPay
       ELSE /\ t.months_to_desired_completion = 2
            /\ IF monthly_interest_rate(t) = 0
               THEN t.principal_amount % t.months_to_desired_completion = 0
               ELSE LET amp == Pow(1 + monthly_interest_rate(t),
                                   t.months_to_desired_completion)
                    IN (monthly_interest_rate(t) * t.principal_amount * amp)
                          % (amp - 1) = 0

LoanTerms ==
    {t \in [principal_amount : 1..MaxPrincipal,
            apr : APRs,
            minimum_payment_default : MinPaymentDefaults,
            months_to_desired_completion : {2, DefaultMonthsToPay}] :
        ExactTerms(t)}

(***************************************************************************)
(* Wallet                                                                  *)
(***************************************************************************)
\* Wallet.total_still_owed over the balances owe (loan id -> amount).
TotalOf(owe) == SumOver([id \in LoanIds |-> Val(owe[id])], LoanIds)

total_still_owed == TotalOf(amount_still_owed)

\* sorted(items, key=operator.itemgetter(1)): a stable ascending sort.
RECURSIVE InsertSorted(_, _, _)
InsertSorted(x, s, key) ==
    IF s = <<>> THEN <<x>>
    ELSE IF key[Head(s)] <= key[x]
         THEN <<Head(s)>> \o InsertSorted(x, Tail(s), key)
         ELSE <<x>> \o s

RECURSIVE sorted(_, _)
sorted(items, key) ==
    IF items = <<>> THEN <<>>
    ELSE InsertSorted(items[Len(items)],
                      sorted(SubSeq(items, 1, Len(items) - 1), key), key)

Reverse(s) == [i \in 1..Len(s) |-> s[Len(s) + 1 - i]]

\* The bug of ranking by the principal, not by the amount still owed.
SnowballPriorityByPrincipal(owe) ==
    sorted(priority_items, [id \in LoanIds |-> loans[id].principal_amount])

SnowballPriority(owe) ==
    sorted(priority_items, [id \in LoanIds |-> Val(owe[id])])

get_debt_snowball_loan_priority_ids == SnowballPriority(amount_still_owed)

\* The bug of leaving out the reversal: smallest rate first.
AvalanchePrioritySmallestFirst(terms, items) ==
    sorted(items, [id \in LoanIds |-> yearly_interest_rate(terms[id])])

\* The ranking of the loans of terms `terms`, their ids yielded in the
\* order `items`: ascending by yearly_interest_rate, then reversed.
AvalanchePriority(terms, items) ==
    Reverse(sorted(items, [id \in LoanIds |-> yearly_interest_rate(terms[id])]))

get_debt_avalanche_loan_priority_ids == AvalanchePriority(loans, priority_items)

\* amount_still_owed/apr raises ZeroDivisionError when some apr is 0.
SpiralRaises == \E id \in LoanIds : loans[id].apr = 0

RECURSIVE ProductOver(_, _)
ProductOver(f, S) ==
    IF S = {} THEN 1
    ELSE LET x == CHOOSE y \in S : TRUE IN f[x] * ProductOver(f, S \ {x})

\* The quotients amount_still_owed/apr, compared exactly: each is scaled by
\* the product of all the (positive) aprs, in units of 1200.
SpiralKey(owe) ==
    [id \in LoanIds |->
        Val(owe[id])
          * ProductOver([j \in LoanIds |-> monthly_interest_rate(loans[j])],
                        LoanIds \ {id})]

\* The bug of ranking the largest quotient amount_still_owed/apr first.
SpiralPriorityLargestQuotientFirst(owe) ==
    Reverse(sorted(priority_items, SpiralKey(owe)))

SpiralPriority(owe) == sorted(priority_items, SpiralKey(owe))

get_debt_spiral_loan_priority_ids == SpiralPriority(amount_still_owed)

\* The bug of not skipping a loan whose remaining need is 0.
RECURSIVE AllocateWithoutSkip(_, _, _, _)
AllocateWithoutSkip(ids, owe, payments, amount_left) ==
    IF ids = <<>> THEN payments
    ELSE LET loan_id == Head(ids)
             loan_amount_still_owed == Val(owe[loan_id]) - payments[loan_id]
         IN IF amount_left <= loan_amount_still_owed
            THEN [payments EXCEPT ![loan_id] = @ + amount_left]
            ELSE AllocateWithoutSkip(Tail(ids), owe,
                          [payments EXCEPT ![loan_id] = @ + loan_amount_still_owed],
                          amount_left - loan_amount_still_owed)

\* The walk over loan_priority_ids that hands out amount_left.
\* The bug of not leaving the loop once the budget is used up.
RECURSIVE AllocateWithoutBreak(_, _, _, _)
AllocateWithoutBreak(ids, owe, payments, amount_left) ==
    IF ids = <<>> THEN payments
    ELSE LET loan_id == Head(ids)
             loan_amount_still_owed == Val(owe[loan_id]) - payments[loan_id]
         IN IF loan_amount_still_owed = 0
            THEN AllocateWithoutBreak(Tail(ids), owe, payments, amount_left)
            ELSE IF amount_left <= loan_amount_still_owed
            THEN AllocateWithoutBreak(
                     Tail(ids), owe,
                     [payments EXCEPT ![loan_id] = @ + amount_left],
                     amount_left)
            ELSE AllocateWithoutBreak(
                     Tail(ids), owe,
                     [payments EXCEPT ![loan_id] = @ + loan_amount_still_owed],
                     amount_left - loan_amount_still_owed)

RECURSIVE Allocate(_, _, _, _)
Allocate(ids, owe, payments, amount_left) ==
    IF ids = <<>> THEN payments
    ELSE LET loan_id == Head(ids)
             loan_amount_still_owed == Val(owe[loan_id]) - payments[loan_id]
         IN IF loan_amount_still_owed = 0
            THEN Allocate(Tail(ids), owe, payments, amount_left)
            ELSE IF amount_left <= loan_amount_still_owed
            THEN [payments EXCEPT ![loan_id] = @ + amount_left]
            ELSE Allocate(Tail(ids), owe,
                          [payments EXCEPT ![loan_id] = @ + loan_amount_still_owed],
                          amount_left - loan_amount_still_owed)

\* payments[loan_id] = loan.minimum_payment_simulation, for every loan.
MinimumPayments(owe) ==
    [id \in LoanIds |-> minimum_payment_simulation(loans[id], owe[id])]

\* The body the three get_debt_*_payment_installment methods share.
PaymentInstallment(loan_priority_ids, owe) ==
    Allocate(loan_priority_ids, owe, MinimumPayments(owe),
             budget_ceiling - SumOver(MinimumPayments(owe), LoanIds))

InstallmentOf(p, owe) ==
    CASE p = "snowball" -> PaymentInstallment(SnowballPriority(owe), owe)
      [] p = "avalanche" ->
            PaymentInstallment(get_debt_avalanche_loan_priority_ids, owe)
      [] p = "spiral" -> PaymentInstallment(SpiralPriority(owe), owe)

get_debt_snowball_payment_installment ==
    InstallmentOf("snowball", amount_still_owed)

get_debt_avalanche_payment_installment ==
    InstallmentOf("avalanche", amount_still_owed)

get_debt_spiral_payment_installment ==
    InstallmentOf("spiral", amount_still_owed)

\* loan.amount_still_owed -= payments[loan_id], for every loan.
AfterPayments(owe, payments) ==
    [id \in LoanIds |-> Some(Val(owe[id]) - payments[id])]

EarnedInterest(owe) ==
    [id \in LoanIds |->
        compute_single_cycle_earned_interest_simulation(loans[id], owe[id])]

\* loan.amount_still_owed += earned_interest, for every loan.
AfterInterest(owe) ==
    [id \in LoanIds |-> Some(Val(owe[id]) + EarnedInterest(owe)[id])]

AppendAll(history, values) ==
    [id \in LoanIds |-> Append(history[id], values[id])]

MethodName(p) ==
    CASE p = "snowball" -> "Debt-Snowball"
      [] p = "avalanche" -> "Debt-Avalanche"
      [] p = "spiral" -> "Debt-Spiral"

\* The generate_*_plan that is executing, or that ran last.
plan == IF calls = <<>> THEN "none" ELSE calls[Len(calls)]

EmptyHistory == [id \in LoanIds |-> <<>>]

\* The bug of clearing the histories without resetting amount_still_owed.
initialize_simulation_keeping_balances(p) ==
    /\ pc \in {"idle", "done", "raised"}
    /\ calls_left > 0
    /\ calls_left' = calls_left - 1
    /\ payment_history' = EmptyHistory
    /\ balance_history' = EmptyHistory
    /\ interest_history' = EmptyHistory
    /\ method_used_name' = None
    /\ months_in_history' = None
    /\ amount_still_owed' =
          [id \in LoanIds |->
              IF amount_still_owed[id] = None
              THEN Some(loans[id].principal_amount)
              ELSE amount_still_owed[id]]
    /\ months_passed' = 0
    /\ calls' = Append(calls, p)
    /\ pc' = "while"
    /\ UNCHANGED <<loans, budget_ceiling, priority_items>>

\* _initialize_simulation followed by months_passed = 0.
initialize_simulation(p) ==
    /\ pc \in {"idle", "done", "raised"}
    /\ calls_left > 0
    /\ calls_left' = calls_left - 1
    /\ payment_history' = EmptyHistory
    /\ balance_history' = EmptyHistory
    /\ interest_history' = EmptyHistory
    /\ method_used_name' = None
    /\ months_in_history' = None
    /\ amount_still_owed' = [id \in LoanIds |-> Some(loans[id].principal_amount)]
    /\ months_passed' = 0
    /\ calls' = Append(calls, p)
    /\ pc' = "while"
    /\ UNCHANGED <<loans, budget_ceiling, priority_items>>

generate_debt_snowball_plan == initialize_simulation("snowball")

generate_debt_avalanche_plan == initialize_simulation("avalanche")

generate_debt_spiral_plan == initialize_simulation("spiral")

\* while self.total_still_owed > 0.: record the current balances.
RecordBalances ==
    /\ pc = "while"
    /\ total_still_owed > 0
    /\ months_passed < MaxMonths
    /\ balance_history' =
          AppendAll(balance_history, [id \in LoanIds |-> Val(amount_still_owed[id])])
    /\ pc' = "pay"
    /\ UNCHANGED <<loans, budget_ceiling, priority_items, amount_still_owed,
                   payment_history, interest_history, method_used_name,
                   months_in_history, months_passed, calls, calls_left>>

\* Compute, record and apply the month's payments.
ApplyPayments ==
    /\ pc = "pay"
    /\ ~(plan = "spiral" /\ SpiralRaises)
    /\ LET payments ==
              CASE plan = "snowball" -> get_debt_snowball_payment_installment
                [] plan = "avalanche" -> get_debt_avalanche_payment_installment
                [] plan = "spiral" -> get_debt_spiral_payment_installment
       IN /\ payment_history' = AppendAll(payment_history, payments)
          /\ amount_still_owed' = AfterPayments(amount_still_owed, payments)
    /\ pc' = "interest"
    /\ UNCHANGED <<loans, budget_ceiling, priority_items, balance_history,
                   interest_history, method_used_name, months_in_history,
                   months_passed, calls, calls_left>>

\* get_debt_spiral_loan_priority_ids divides by an apr of 0: the exception
\* leaves generate_debt_spiral_plan with the month's balances recorded.
SpiralZeroDivision ==
    /\ pc = "pay"
    /\ plan = "spiral"
    /\ SpiralRaises
    /\ pc' = "raised"
    /\ UNCHANGED <<loans, budget_ceiling, priority_items, amount_still_owed,
                   payment_history, balance_history, interest_history,
                   method_used_name, months_in_history, months_passed, calls,
                   calls_left>>

\* Compute, record and add the interest of the cycle; months_passed += 1.
AccrueInterest ==
    /\ pc = "interest"
    /\ interest_history' =
          AppendAll(interest_history, EarnedInterest(amount_still_owed))
    /\ amount_still_owed' = AfterInterest(amount_still_owed)
    /\ months_passed' = months_passed + 1
    /\ pc' = "while"
    /\ UNCHANGED <<loans, budget_ceiling, priority_items, payment_history,
                   balance_history, method_used_name, months_in_history, calls,
                   calls_left>>

\* The bug of counting the month that was not simulated.
FinishOffByOne ==
    /\ pc = "while"
    /\ ~(total_still_owed > 0)
    /\ method_used_name' = Some(MethodName(plan))
    /\ months_in_history' = Some(months_passed + 1)
    /\ pc' = "done"
    /\ UNCHANGED <<loans, budget_ceiling, priority_items, amount_still_owed,
                   payment_history, balance_history, interest_history,
                   months_passed, calls, calls_left>>

\* The loop is left: method_used_name and months_in_history are set.
Finish ==
    /\ pc = "while"
    /\ ~(total_still_owed > 0)
    /\ method_used_name' = Some(MethodName(plan))
    /\ months_in_history' = Some(months_passed)
    /\ pc' = "done"
    /\ UNCHANGED <<loans, budget_ceiling, priority_items, amount_still_owed,
                   payment_history, balance_history, interest_history,
                   months_passed, calls, calls_left>>

InitWallet ==
    /\ loans \in [LoanIds -> LoanTerms]
    /\ budget_ceiling \in 1..MaxBudget
    /\ priority_items \in PriorityItemOrders
    /\ amount_still_owed = [id \in LoanIds |-> None]
    /\ payment_history = None
    /\ balance_history = None
    /\ interest_history = None
    /\ method_used_name = None
    /\ months_in_history = None
    /\ months_passed = 0
    /\ calls = <<>>
    /\ pc = "idle"

Init ==
    /\ InitWallet
    /\ calls_left = 1

Next ==
    \/ generate_debt_snowball_plan
    \/ generate_debt_avalanche_plan
    \/ generate_debt_spiral_plan
    \/ RecordBalances
    \/ ApplyPayments
    \/ SpiralZeroDivision
    \/ AccrueInterest
    \/ Finish

Spec == Init /\ [][Next]_vars

\* A wallet that is reused: the caller makes up to MaxRuns calls.
InitReuse ==
    /\ InitWallet
    /\ budget_ceiling = MaxBudget
    /\ priority_items = iteritems
    /\ calls_left = MaxRuns

SpecReuse == InitReuse /\ [][Next]_vars

(***************************************************************************)
(* Properties                                                              *)
(***************************************************************************)
\* A generate_*_plan call has been made: the histories are dictionaries.
Started == pc # "idle"

MonthsRecorded(history) == Len(history[iteritems[1]])

\* sum(payment_history[*][m])
PaidInMonth(m) == SumOver([id \in LoanIds |-> payment_history[id][m]], LoanIds)

\* C1: in every simulated month the payments recorded over all loans sum to
\* at most budget_ceiling, and to exactly budget_ceiling unless the month is
\* the last of the run (the one whose payments clear every balance).
C1_BudgetSpentEachMonth ==
    Started =>
        \A m \in 1..MonthsRecorded(payment_history) :
            /\ PaidInMonth(m) <= budget_ceiling
            /\ \/ PaidInMonth(m) = budget_ceiling
               \/ /\ m = MonthsRecorded(payment_history)
                  /\ pc \in {"interest", "while", "done"}
                  /\ total_still_owed = 0

\* C2: every amount_still_owed is >= 0 after the reset, after the payments
\* and after the interest, and no recorded payment exceeds the balance
\* recorded before it.
C2_NeverOverpaid ==
    Started =>
        \A id \in LoanIds :
            /\ Val(amount_still_owed[id]) >= 0
            /\ \A m \in 1..Len(payment_history[id]) :
                  payment_history[id][m] <= balance_history[id][m]

\* A loan was paid off by the extra budget (more than its minimum, exactly
\* its balance) in a month in which another loan stays in debt.
C2_Witness ==
    /\ pc = "interest"
    /\ \E id \in LoanIds :
          /\ payment_history[id][months_passed + 1]
                = balance_history[id][months_passed + 1]
          /\ payment_history[id][months_passed + 1] > minimum_payment(loans[id])
    /\ total_still_owed > 0

\* The sum of the loans' minimum payments, computed or overridden.
SumMinimumPayments ==
    SumOver([id \in LoanIds |-> minimum_payment(loans[id])], LoanIds)

\* A month starts, with debt left, on the balances the month before it
\* started on. A month's payments and interest are a function of the
\* balances alone, so from here the loop repeats that month for ever.
BalancesRecur ==
    /\ pc = "while"
    /\ months_passed > 0
    /\ total_still_owed > 0
    /\ \A id \in LoanIds :
          Val(amount_still_owed[id]) = balance_history[id][months_passed]

\* The run has left the month loop as the code does: every balance is 0 and
\* months_in_history and method_used_name are set.
Terminated ==
    /\ pc = "done"
    /\ \A id \in LoanIds : amount_still_owed[id] = Some(0)
    /\ months_in_history = Some(months_passed)
    /\ method_used_name = Some(MethodName(plan))

OutpacesInterest(loan) ==
    monthly_interest_amp(loan) * minimum_payment(loan)
        > monthly_interest_rate(loan) * loan.principal_amount

C3_Precondition ==
    /\ budget_ceiling > SumMinimumPayments
    /\ \A id \in LoanIds : OutpacesInterest(loans[id])

\* The spiral run stopped in ZeroDivisionError on a loan whose apr is 0.
SpiralRaised == pc = "raised" /\ plan = "spiral" /\ SpiralRaises

\* The total owed at the start of simulated month m.
BalanceTotal(m) == SumOver([id \in LoanIds |-> balance_history[id][m]], LoanIds)

InsufficientBudget ==
    budget_ceiling < SumOver(MinimumPayments(amount_still_owed), LoanIds)

\* C4: when budget_ceiling is less than the sum of the month's minimum
\* payments, the allocation does not proceed: no payment is recorded and no
\* balance changes in that month.
C4_InsufficientBudgetReported ==
    [][(pc = "pay" /\ InsufficientBudget)
          => (/\ amount_still_owed' = amount_still_owed
              /\ payment_history' = payment_history)]_vars

\* C5: no run loops for ever: a run whose debt never reaches 0 is cut off
\* with a failure, so no month starts, with debt left, on the balances the
\* month before it started on.
C5_NoEndlessRun == ~BalancesRecur

\* The month loop of generate_<p>_plan from the balances owe and the
\* histories bh, ph, ih after m months: what the call leaves in the Wallet
\* when it returns.
RECURSIVE MonthLoop(_, _, _, _, _, _)
MonthLoop(p, owe, bh, ph, ih, m) ==
    IF ~(TotalOf(owe) > 0)
    THEN [balance_history |-> bh, payment_history |-> ph,
          interest_history |-> ih, months_in_history |-> Some(m),
          method_used_name |-> Some(MethodName(p))]
    ELSE IF m >= MaxMonths \/ (p = "spiral" /\ SpiralRaises)
    THEN [balance_history |-> bh, payment_history |-> ph,
          interest_history |-> ih, months_in_history |-> None,
          method_used_name |-> None]
    ELSE LET payments == InstallmentOf(p, owe)
             paid == AfterPayments(owe, payments)
         IN MonthLoop(p, AfterInterest(paid),
                      AppendAll(bh, [id \in LoanIds |-> Val(owe[id])]),
                      AppendAll(ph, payments),
                      AppendAll(ih, EarnedInterest(paid)), m + 1)

\* The result of generate_<p>_plan on a Wallet that has run no plan yet.
FreshRun(p) ==
    MonthLoop(p, [id \in LoanIds |-> Some(loans[id].principal_amount)],
              EmptyHistory, EmptyHistory, EmptyHistory, 0)

\* C6: the histories, months_in_history and method_used_name a completed
\* generate_<strategy>_plan run leaves are those of the same run on a fresh
\* Wallet, whatever ran on this Wallet before.
C6_RunIndependentOfEarlierRuns ==
    pc = "done" =>
        [balance_history |-> balance_history,
         payment_history |-> payment_history,
         interest_history |-> interest_history,
         months_in_history |-> months_in_history,
         method_used_name |-> method_used_name] = FreshRun(plan)

\* A second run of several months has completed after a completed run of
\* another strategy that left other histories.
C6_Witness ==
    /\ pc = "done"
    /\ Len(calls) = 2
    /\ calls[1] # calls[2]
    /\ months_passed >= 2
    /\ FreshRun(calls[1]).months_in_history # None
    /\ FreshRun(calls[1]).payment_history # payment_history

\* C7: after a completed run the three histories of every loan have the
\* length months_in_history, and at every boundary of the month loop they
\* have the length of the months simulated so far.
C7_HistoriesSameLength ==
    /\ pc = "done" =>
          \A id \in LoanIds :
              /\ Some(Len(balance_history[id])) = months_in_history
              /\ Some(Len(payment_history[id])) = months_in_history
              /\ Some(Len(interest_history[id])) = months_in_history
    /\ pc = "while" =>
          \A id \in LoanIds :
              /\ Len(balance_history[id]) = months_passed
              /\ Len(payment_history[id]) = months_passed
              /\ Len(interest_history[id]) = months_passed

\* A run of several months has completed.
C7_Witness ==
    /\ pc = "done"
    /\ Val(months_in_history) >= 2
    /\ \A id \in LoanIds : Len(interest_history[id]) >= 2

\* C8: a loan whose balance is 0 at the start of a month is recorded with a
\* payment of 0 and an interest of 0 in that month, and its balance is 0 at
\* the start of the next month and at every point in between.
C8_PaidOffLoanFrozen ==
    Started =>
        \A id \in LoanIds :
            \A m \in 1..Len(balance_history[id]) :
                balance_history[id][m] = 0 =>
                    /\ m <= Len(payment_history[id])
                          => payment_history[id][m] = 0
                    /\ m <= Len(interest_history[id])
                          => interest_history[id][m] = 0
                    /\ m < Len(balance_history[id])
                          => balance_history[id][m + 1] = 0
                    /\ m = Len(balance_history[id])
                          => amount_still_owed[id] = Some(0)

\* A paid-off loan went through a whole month in which another loan was
\* paid more than its minimum: budget was left over and none of it went to
\* the paid-off loan.
C8_Witness ==
    /\ pc = "while"
    /\ months_passed >= 2
    /\ \E id \in LoanIds :
          /\ balance_history[id][months_passed] = 0
          /\ loans[id].apr > 0
    /\ \E id \in LoanIds :
          payment_history[id][months_passed] > minimum_payment(loans[id])

IsPermutationOfLoanIds(ids) ==
    /\ Len(ids) = Cardinality(LoanIds)
    /\ \A id \in LoanIds : \E i \in 1..Len(ids) : ids[i] = id

\* C9: get_debt_snowball_loan_priority_ids returns every loan id exactly
\* once, in ascending order of the current amount_still_owed.
C9_SnowballAscendingBalance ==
    Started =>
        LET ids == get_debt_snowball_loan_priority_ids
        IN /\ IsPermutationOfLoanIds(ids)
           /\ \A i, j \in 1..Len(ids) :
                 i < j => Val(amount_still_owed[ids[i]])
                            <= Val(amount_still_owed[ids[j]])

\* The spec's example up to scale, A(100), B(50), C(200): three different
\* balances, B < A < C, ranked [B, A, C] for the month's allocation.
C9_Witness ==
    /\ pc = "pay"
    /\ plan = "snowball"
    /\ Val(amount_still_owed["B"]) < Val(amount_still_owed["A"])
    /\ Val(amount_still_owed["A"]) < Val(amount_still_owed["C"])
    /\ get_debt_snowball_loan_priority_ids = <<"B", "A", "C">>

\* The list is every loan id exactly once, in descending order of apr.
AvalancheRanked(ids) ==
    /\ IsPermutationOfLoanIds(ids)
    /\ \A i, j \in 1..Len(ids) :
          i < j => loans[ids[i]].apr >= loans[ids[j]].apr

\* C10: get_debt_avalanche_loan_priority_ids returns every loan id exactly
\* once, in descending order of apr, and no step of a run changes the order
\* it returns (so the order is ranked before the step as it is after it).
C10_AvalancheDescendingApr ==
    [][/\ AvalancheRanked(AvalanchePriority(loans', priority_items'))
       /\ AvalanchePriority(loans', priority_items')
             = get_debt_avalanche_loan_priority_ids]_vars

\* In a later month of an avalanche run, three loans of different aprs are
\* ranked by apr although their balances rank them otherwise.
C10_Witness ==
    /\ pc = "pay"
    /\ plan = "avalanche"
    /\ months_passed >= 1
    /\ LET ids == get_debt_avalanche_loan_priority_ids
       IN /\ loans[ids[1]].apr > loans[ids[2]].apr
          /\ loans[ids[2]].apr > loans[ids[3]].apr
          /\ ids # Reverse(get_debt_snowball_loan_priority_ids)
          /\ ids # get_debt_snowball_loan_priority_ids

\* The place of loan id x in the sequence ids.
PositionIn(ids, x) == CHOOSE i \in 1..Len(ids) : ids[i] = x

\* Loans of equal ranking key stand in ids in the order in which the loans
\* mapping (iteritems) yields them.
TiesInMappingOrder(ids, key) ==
    \A i, j \in 1..Len(ids) :
        (i < j /\ key[ids[i]] = key[ids[j]])
            => PositionIn(iteritems, ids[i]) < PositionIn(iteritems, ids[j])

\* C11: in the priority list of each of the three strategies, two loans of
\* equal ranking key (balance for snowball, apr for avalanche, balance/apr
\* for spiral) stand in the order in which the loans mapping yields them,
\* never in the reverse order.
C11_TiesInMappingOrder ==
    Started =>
        /\ TiesInMappingOrder(get_debt_snowball_loan_priority_ids,
                              [id \in LoanIds |-> Val(amount_still_owed[id])])
        /\ TiesInMappingOrder(get_debt_avalanche_loan_priority_ids,
                              [id \in LoanIds |-> loans[id].apr])
        /\ ~SpiralRaises =>
              TiesInMappingOrder(get_debt_spiral_loan_priority_ids,
                                 SpiralKey(amount_still_owed))

\* Every loan has a positive apr and a positive balance.
PositiveAprAndBalance ==
    \A id \in LoanIds :
        loans[id].apr > 0 /\ Val(amount_still_owed[id]) > 0

\* apr/amount_still_owed of loan x is at least that of loan y (both
\* balances positive), compared without dividing.
RatioAtLeast(x, y) ==
    loans[x].apr * Val(amount_still_owed[y])
        >= loans[y].apr * Val(amount_still_owed[x])

\* C12: for loans of positive apr and positive balance,
\* get_debt_spiral_loan_priority_ids returns every loan id exactly once in
\* order of largest to smallest apr/amount_still_owed, and the spiral
\* installment gives budget beyond the minimum payment to a loan only if
\* its ratio is at least that of every loan the installment leaves unpaid.
C12_SpiralLargestRatioFirst ==
    (Started /\ PositiveAprAndBalance) =>
        LET ids == get_debt_spiral_loan_priority_ids
            payments == get_debt_spiral_payment_installment
            minimums == MinimumPayments(amount_still_owed)
        IN /\ IsPermutationOfLoanIds(ids)
           /\ \A i, j \in 1..Len(ids) : i < j => RatioAtLeast(ids[i], ids[j])
           /\ budget_ceiling >= SumOver(minimums, LoanIds) =>
                 \A x, y \in LoanIds :
                     (/\ payments[x] > minimums[x]
                      /\ payments[y] < Val(amount_still_owed[y]))
                         => RatioAtLeast(x, y)

\* A month of a spiral run whose first-ranked loan has a larger ratio than
\* the two others, in an order that is neither the snowball nor the
\* avalanche order: the first-ranked loan gets more than its minimum
\* payment while the last-ranked stays unpaid.
C12_Witness ==
    /\ pc = "pay"
    /\ plan = "spiral"
    /\ PositiveAprAndBalance
    /\ LET ids == get_debt_spiral_loan_priority_ids
           payments == get_debt_spiral_payment_installment
           minimums == MinimumPayments(amount_still_owed)
       IN /\ ~RatioAtLeast(ids[2], ids[1])
          /\ ~RatioAtLeast(ids[3], ids[1])
          /\ ids # get_debt_snowball_loan_priority_ids
          /\ ids # get_debt_avalanche_loan_priority_ids
          /\ payments[ids[1]] > minimums[ids[1]]
          /\ payments[ids[3]] < Val(amount_still_owed[ids[3]])

\* The priority list strategy p computes from the balances owe.
PriorityOf(p, owe) ==
    CASE p = "snowball" -> SnowballPriority(owe)
      [] p = "avalanche" -> get_debt_avalanche_loan_priority_ids
      [] p = "spiral" -> SpiralPriority(owe)

\* The balances recorded for month m, before its payments.
BalancesOfMonth(m) == [id \in LoanIds |-> Some(balance_history[id][m])]

\* The loans that were paid a partial extra amount in month m: more than
\* the minimum payment, less than the balance.
PartiallyPaid(m) ==
    {id \in LoanIds :
        /\ payment_history[id][m]
              > MinimumPayments(BalancesOfMonth(m))[id]
        /\ payment_history[id][m] < balance_history[id][m]}

\* Month m was paid in priority order: up to some place k of the priority
\* list every loan is paid its whole balance, after it every loan is paid
\* its minimum payment, and the loan at k something in between.
PaidInPriorityOrder(m) ==
    LET ids == PriorityOf(plan, BalancesOfMonth(m))
        minimums == MinimumPayments(BalancesOfMonth(m))
    IN \E k \in 1..Len(ids) :
          \A i \in 1..Len(ids) :
              LET paid == payment_history[ids[i]][m]
                  owed == balance_history[ids[i]][m]
              IN /\ i < k => paid = owed
                 /\ i > k => paid = minimums[ids[i]]
                 /\ i = k => (minimums[ids[i]] <= paid /\ paid <= owed)

\* C13: in every recorded month whose budget_ceiling is at least the sum of
\* the minimum payments, at most one loan is paid a partial extra amount,
\* every loan ranked before it is paid its whole pre-payment balance and
\* every loan ranked after it exactly its minimum payment.
C13_ExtraInPriorityOrder ==
    Started =>
        \A m \in 1..MonthsRecorded(payment_history) :
            budget_ceiling
                  >= SumOver(MinimumPayments(BalancesOfMonth(m)), LoanIds)
               => /\ Cardinality(PartiallyPaid(m)) <= 1
                  /\ PaidInPriorityOrder(m)

\* The month just paid, in the shape of the spec's example (A=100 of 500,
\* B=50 of 1000): a loan was paid a partial extra amount and the loan
\* ranked after it was paid its minimum payment only and still owes.
C13_Witness ==
    /\ pc = "interest"
    /\ LET m == MonthsRecorded(payment_history)
           ids == PriorityOf(plan, BalancesOfMonth(m))
           minimums == MinimumPayments(BalancesOfMonth(m))
       IN /\ budget_ceiling >= SumOver(minimums, LoanIds)
          /\ \E k \in 1..(Len(ids) - 1) :
                /\ ids[k] \in PartiallyPaid(m)
                /\ \A i \in 1..(k - 1) :
                      payment_history[ids[i]][m] = balance_history[ids[i]][m]
                /\ payment_history[ids[k + 1]][m] = minimums[ids[k + 1]]
                /\ payment_history[ids[k + 1]][m]
                      < balance_history[ids[k + 1]][m]

\* C14: the three histories of a run agree for every loan: the first
\* recorded balance is principal_amount, the interest recorded for month m
\* is (balance - payment of month m) * monthly_interest_rate, accrued on the
\* balance after the payment and not on the principal, and the balance
\* recorded for month m + 1 is balance - payment + interest of month m.
C14_HistoriesConsistent ==
    Started =>
        \A id \in LoanIds :
            LET balances == balance_history[id]
                payments == payment_history[id]
                interests == interest_history[id]
            IN /\ Len(balances) >= 1
                    => balances[1] = loans[id].principal_amount
               /\ \A m \in 1..Len(interests) :
                     interests[m] = (balances[m] - payments[m])
                                       * monthly_interest_rate(loans[id])
               /\ \A m \in 1..(Len(balances) - 1) :
                     balances[m + 1]
                        = balances[m] - payments[m] + interests[m]

\* Two months are recorded and a loan has accrued interest on a balance
\* after payment that differs from its principal, in both months.
C14_Witness ==
    /\ Started
    /\ \E id \in LoanIds :
          /\ Len(balance_history[id]) >= 3
          /\ \A m \in 1..2 :
                /\ interest_history[id][m] > 0
                /\ balance_history[id][m] - payment_history[id][m]
                      # loans[id].principal_amount
          /\ balance_history[id][2] # balance_history[id][3]

\* C15: a spiral run over loans some of which have apr = 0 never ends in an
\* error state: get_debt_spiral_loan_priority_ids returns its list instead
\* of failing on the division amount_still_owed / apr.
C15_SpiralDefinedForZeroApr ==
    (plan = "spiral" /\ SpiralRaises) => pc # "raised"

====
